---- MODULE Spec2Model ----
(***************************************************************************)
(* Location check-in demo: the client capture-and-submit flow              *)
(* (src/App.tsx, src/app/page.tsx) and the location ingest endpoint        *)
(* (src/app/page.tsx POST, src/services/geminiService.ts app.post) with    *)
(* the Mongoose schema (src/unnamed/part_000) and the cached connection    *)
(* (src/lib/mongodb.ts).                                                   *)
(***************************************************************************)
EXTENDS Integers, Sequences, FiniteSets, TLC

\* ------------------------------------------------------------------ bounds
MaxAttempts == 2       \* clicks on "Verify & Sync" / "Retry" explored
MaxCalls == 2          \* ingest calls explored
MaxInsights == 2       \* getGeoInsights calls explored

\* ------------------------------------------------------- values and inputs
Null == "NULL"                       \* JS null
Missing == "MISSING"                 \* JS undefined: field absent from the JSON body
NaS == "abc"                         \* a string that does not cast to a Number

ClientVariants == {"App", "Page"}    \* src/App.tsx, src/app/page.tsx (Home)
Lats == {3, 7}
Lngs == {3, 7}
Accs == {0, 5}
ErrCodes == {1, 2, 3}                \* GeolocationPositionError.code
UserAgent == "UA"                    \* navigator.userAgent
DemoUser == "Vinu Varshith CP"

ServerVariants == {"Next", "Express"} \* app/api route POST, Express app.post
Calls == 1..MaxCalls

\* JSON values of a request body, tagged with their JavaScript type.
Undef == [t |-> "undef"]
Num(n) == [t |-> "num", v |-> n]
Str(x) == [t |-> "str", v |-> x]
Arr(xs) == [t |-> "arr", v |-> xs]

Body(c, a, u) == [coordinates |-> c, accuracy |-> a, userId |-> u]

GoodCoords == Arr(<<Num(7), Num(3)>>)
CoordInputs == {Undef, Arr(<<>>), Arr(<<Num(7)>>), GoodCoords,
                Arr(<<Num(7), Str(NaS)>>), Arr(<<Num(200), Num(-100)>>)}
AccInputs == {Undef, Num(0), Num(5), Str(NaS)}
\* Request bodies explored: every coordinates shape with a good accuracy,
\* every accuracy shape with good coordinates, with a userId, with an empty
\* userId and without one.
Bodies ==
  {Body(c, Num(5), Str("u1")) : c \in CoordInputs}
    \cup {Body(GoodCoords, a, Str("u1")) : a \in AccInputs}
    \cup {Body(GoodCoords, Num(5), Undef), Body(GoodCoords, Num(5), Str("")),
          Body(Undef, Undef, Undef)}
NoBody == Body(Undef, Undef, Undef)

\* Texts the insight service may answer with (response.text): none, empty,
\* not JSON, a JSON object without the two fields, a JSON AIInsight.
Texts == {Missing, "", "Sorry, no insight.", "{}",
          "{\"summary\":\"Welcome.\",\"funFact\":\"A fact.\"}"}
AIInsight(s, f) == [summary |-> s, funFact |-> f]
NoInsight == AIInsight(Missing, Missing)
CannedInsight ==
  AIInsight("You are successfully checked in at your current coordinates.",
            "Did you know that every point on Earth has a unique story to tell through its coordinates?")

\* ------------------------------------------------------------------- state
VARIABLES
  variant,      \* which client is running
  hasGeo,       \* navigator.geolocation is present
  state,        \* useState<AppState>
  error,        \* useState<string | null>
  geoPending,   \* a getCurrentPosition request is outstanding
  geoErr,       \* code of the failure the host reported to the error callback (0: none)
  captured,     \* LocationData values handed to syncWithMongoDB, in order
  sent,         \* bodies of the POSTs issued by syncWithMongoDB, in order
  pc,           \* position of syncWithMongoDB: idle, fetch, body, delay, done
  timerArmed,   \* the 5000 ms abort timer of App.tsx is pending
  outcome,      \* settled result of the network write as the client observed it
  geoRequests,  \* number of getCurrentPosition calls made
  clicks,       \* number of requestLocation invocations
  server,       \* which ingest endpoint is deployed: Next route or Express app
  dbUp,         \* the storage is reachable and accepts writes
  indexBuilt,   \* the 2dsphere index declared by LocationSchema exists in the store
  cached,       \* globalThis.mongoose of lib/mongodb.ts: conn and promise
  expressConn,  \* the mongoose.connect issued at start-up by the Express app
  reqs,         \* the ingest calls: position, body, response status, _id
  saves,        \* per call, the number of newLocation.save() invocations
  connects,     \* number of mongoose.connect invocations made by the server
  inFlight,     \* number of mongoose.connect attempts not yet settled
  store,        \* the documents of the Location collection, in insertion order
  insightPc,    \* position of getGeoInsights: idle, await, returned, thrown
  insight,      \* the AIInsight the last getGeoInsights call resolved with
  insightFailure, \* how the insight service failed the last call (none: it did not)
  insightCalls  \* number of getGeoInsights calls made

flowVars == <<variant, hasGeo, state, error, geoPending, geoErr, captured, sent,
              pc, timerArmed, outcome, geoRequests, clicks>>

ingestVars == <<server, dbUp, indexBuilt, cached, expressConn, reqs, saves,
                connects, inFlight, store>>

insightVars == <<insightPc, insight, insightFailure, insightCalls>>

vars == <<flowVars, ingestVars, insightVars>>

\* ------------------------------------------------------- client: messages
UnsupportedMessage(v) ==
  IF v = "App" THEN "Geolocation is not supported by your browser."
               ELSE "Geolocation not supported."

GenericMessage(v) ==
  IF v = "App" THEN "Could not verify location." ELSE "Verification failed."

ErrorMessageMerged(v, code) ==
  IF v = "App"
  THEN IF code = 1
       THEN "Location Access Denied. Please click the 'Lock' icon in your browser address bar and set Location to 'Allow'."
       ELSE IF code = 2 \/ code = 3
       THEN "GPS signal unavailable. Ensure location services are enabled on your device."
       ELSE "Could not verify location."
  ELSE IF code = 1 THEN "Location Access Denied. Enable it in your browser settings."
       ELSE IF code = 2 \/ code = 3 THEN "GPS signal unavailable."
       ELSE "Verification failed."

ErrorMessage(v, code) ==
  IF v = "App"
  THEN IF code = 1
       THEN "Location Access Denied. Please click the 'Lock' icon in your browser address bar and set Location to 'Allow'."
       ELSE IF code = 2
       THEN "GPS signal unavailable. Ensure location services are enabled on your device."
       ELSE IF code = 3 THEN "Request timed out. Please try again."
       ELSE GenericMessage(v)
  ELSE IF code = 1 THEN "Location Access Denied. Enable it in your browser settings."
       ELSE IF code = 2 THEN "GPS signal unavailable."
       ELSE IF code = 3 THEN "Timeout occurred."
       ELSE GenericMessage(v)

\* -------------------------------------------------------- client: payload
\* timestamp: position.timestamp, as a logical time.
LocationData(lat, lng, acc, ts) ==
  [latitude |-> lat, longitude |-> lng, accuracy |-> acc, timestamp |-> ts]

BuildPayloadSwapped(d) ==
  [userId |-> DemoUser,
   coordinates |-> <<d.latitude, d.longitude>>,
   accuracy |-> d.accuracy,
   userAgent |-> UserAgent]

BuildPayload(d) ==
  [userId |-> DemoUser,
   coordinates |-> <<d.longitude, d.latitude>>,
   accuracy |-> d.accuracy,
   userAgent |-> UserAgent]

\* ---------------------------------------------------------- client: flow
Init ==
  /\ variant \in ClientVariants
  /\ hasGeo \in BOOLEAN
  /\ state = "INITIAL"
  /\ error = Null
  /\ geoPending = FALSE
  /\ geoErr = 0
  /\ captured = <<>>
  /\ sent = <<>>
  /\ pc = "idle"
  /\ timerArmed = FALSE
  /\ outcome = "none"
  /\ geoRequests = 0
  /\ clicks = 0
  /\ server \in ServerVariants
  /\ dbUp \in BOOLEAN
  /\ indexBuilt \in BOOLEAN
  /\ cached = [conn |-> FALSE, promise |-> "null"]
  /\ expressConn = IF server = "Express" THEN "connecting" ELSE "unused"
  /\ reqs = [r \in Calls |-> [pc |-> "idle", body |-> NoBody, status |-> 0, id |-> 0]]
  /\ saves = [r \in Calls |-> 0]
  /\ connects = IF server = "Express" THEN 1 ELSE 0
  /\ inFlight = IF server = "Express" THEN 1 ELSE 0
  /\ store = <<>>
  /\ insightPc = "idle"
  /\ insight = NoInsight
  /\ insightFailure = "none"
  /\ insightCalls = 0

\* The two buttons wired to requestLocation are rendered only in INITIAL and
\* in LOCATION_DENIED.
ButtonRenderedWhileProcessing ==
  state \in {"INITIAL", "LOCATION_DENIED", "PROCESSING"}

ButtonRendered == state \in {"INITIAL", "LOCATION_DENIED"}

requestLocationNoReturn ==
  /\ ButtonRendered
  /\ clicks < MaxAttempts
  /\ clicks' = clicks + 1
  /\ geoErr' = 0
  /\ IF ~hasGeo
     THEN /\ error' = UnsupportedMessage(variant)
          /\ state' = "LOCATION_DENIED"
     ELSE /\ error' = Null
          /\ state' = "PROCESSING"
  /\ geoPending' = TRUE
  /\ geoRequests' = geoRequests + 1
  /\ UNCHANGED <<insightVars, ingestVars, variant, hasGeo, captured, sent, pc, timerArmed, outcome>>

requestLocationKeepsError ==
  /\ ButtonRendered
  /\ clicks < MaxAttempts
  /\ clicks' = clicks + 1
  /\ geoErr' = 0
  /\ IF ~hasGeo
     THEN /\ error' = UnsupportedMessage(variant)
          /\ state' = "LOCATION_DENIED"
          /\ UNCHANGED <<geoPending, geoRequests>>
     ELSE /\ UNCHANGED error
          /\ state' = "PROCESSING"
          /\ geoPending' = TRUE
          /\ geoRequests' = geoRequests + 1
  /\ UNCHANGED <<insightVars, ingestVars, variant, hasGeo, captured, sent, pc, timerArmed, outcome>>

requestLocation ==
  /\ ButtonRendered
  /\ clicks < MaxAttempts
  /\ clicks' = clicks + 1
  /\ geoErr' = 0
  /\ IF ~hasGeo
     THEN /\ error' = UnsupportedMessage(variant)
          /\ state' = "LOCATION_DENIED"
          /\ UNCHANGED <<geoPending, geoRequests>>
     ELSE /\ error' = Null
          /\ state' = "PROCESSING"
          /\ geoPending' = TRUE
          /\ geoRequests' = geoRequests + 1
  /\ UNCHANGED <<insightVars, ingestVars, variant, hasGeo, captured, sent, pc, timerArmed, outcome>>

\* Success callback of getCurrentPosition together with the synchronous
\* prefix of syncWithMongoDB, up to `await fetch(...)`.
GeoSuccess(lat, lng, acc) ==
  /\ geoPending
  /\ geoPending' = FALSE
  /\ captured' = Append(captured, LocationData(lat, lng, acc, geoRequests))
  /\ state' = "SYNCING"
  /\ sent' = Append(sent, BuildPayload(LocationData(lat, lng, acc, geoRequests)))
  /\ timerArmed' = (variant = "App")
  /\ pc' = "fetch"
  /\ UNCHANGED <<insightVars, ingestVars, variant, hasGeo, error, geoErr, outcome, geoRequests, clicks>>

\* Error callback of getCurrentPosition.
GeoErrorResets(code) ==
  /\ geoPending
  /\ geoPending' = FALSE
  /\ geoErr' = code
  /\ error' = ErrorMessage(variant, code)
  /\ state' = "INITIAL"
  /\ UNCHANGED <<insightVars, ingestVars, variant, hasGeo, captured, sent, pc, timerArmed, outcome,
                 geoRequests, clicks>>

GeoError(code) ==
  /\ geoPending
  /\ geoPending' = FALSE
  /\ geoErr' = code
  /\ error' = ErrorMessage(variant, code)
  /\ state' = "LOCATION_DENIED"
  /\ UNCHANGED <<insightVars, ingestVars, variant, hasGeo, captured, sent, pc, timerArmed, outcome,
                 geoRequests, clicks>>

\* `catch (err) { console.warn(...); await new Promise(r => setTimeout(r, 1500)); }`
\* up to its await: nothing is shown to the user.
CatchTerminal ==
  /\ pc' = "done"
  /\ UNCHANGED <<state, error>>

CatchSurfaces ==
  /\ pc' = "done"
  /\ error' = "Sync failed."
  /\ state' = "LOCATION_DENIED"

Catch ==
  /\ pc' = "delay"
  /\ UNCHANGED <<state, error>>

\* `finally { setState('LOCATION_GRANTED'); }`
Finally ==
  /\ state' = "LOCATION_GRANTED"
  /\ pc' = "done"
  /\ UNCHANGED error

\* fetch resolves with a Response; ok is response.ok (status 2xx).
FetchResponds(ok) ==
  /\ pc = "fetch"
  /\ IF variant = "App"
     THEN /\ timerArmed' = FALSE                       \* clearTimeout(timeoutId)
          /\ IF ok
             THEN /\ pc' = "body"                      \* await response.json()
                  /\ UNCHANGED <<state, error, outcome>>
             ELSE /\ outcome' = "non2xx"               \* throw new Error('API_ERROR')
                  /\ Catch
     ELSE /\ UNCHANGED timerArmed
          /\ IF ok
             THEN /\ outcome' = "ok"
                  /\ Finally
             ELSE /\ outcome' = "non2xx"               \* throw new Error('API_REJECTED')
                  /\ Catch
  /\ UNCHANGED <<insightVars, ingestVars, variant, hasGeo, geoPending, geoErr, captured, sent,
                 geoRequests, clicks>>

\* fetch rejects with a TypeError ("Failed to fetch"); the abort timer of
\* App.tsx is not cleared on this path.
FetchFailsResends ==
  /\ pc = "fetch"
  /\ outcome' = "neterr"
  /\ IF Len(sent) = Len(captured)
     THEN /\ sent' = Append(sent, sent[Len(sent)])
          /\ UNCHANGED <<pc, state, error>>
     ELSE /\ Catch
          /\ UNCHANGED sent
  /\ UNCHANGED <<insightVars, ingestVars, variant, hasGeo, geoPending, geoErr, captured, timerArmed,
                 geoRequests, clicks>>

FetchFails ==
  /\ pc = "fetch"
  /\ outcome' = "neterr"
  /\ Catch
  /\ UNCHANGED <<insightVars, ingestVars, variant, hasGeo, geoPending, geoErr, captured, sent, timerArmed,
                 geoRequests, clicks>>

\* `setTimeout(() => controller.abort(), 5000)` fires (App.tsx only): a fetch
\* still pending rejects with an AbortError; otherwise the abort is a no-op.
AbortTimerFires ==
  /\ timerArmed
  /\ timerArmed' = FALSE
  /\ IF pc = "fetch"
     THEN /\ outcome' = "abort"
          /\ Catch
     ELSE UNCHANGED <<pc, state, error, outcome>>
  /\ UNCHANGED <<insightVars, ingestVars, variant, hasGeo, geoPending, geoErr, captured, sent,
                 geoRequests, clicks>>

\* `await response.json()` of App.tsx settles: parsed, or rejected.
BodyRead(parsed) ==
  /\ pc = "body"
  /\ IF parsed
     THEN /\ outcome' = "ok"
          /\ Finally
     ELSE /\ outcome' = "badbody"
          /\ Catch
  /\ UNCHANGED <<insightVars, ingestVars, variant, hasGeo, geoPending, geoErr, captured, sent, timerArmed,
                 geoRequests, clicks>>

\* The 1500 ms delay of the catch block elapses; the finally block runs.
DelayElapsed ==
  /\ pc = "delay"
  /\ Finally
  /\ UNCHANGED <<insightVars, ingestVars, variant, hasGeo, geoPending, geoErr, captured, sent, timerArmed,
                 outcome, geoRequests, clicks>>

FlowNext ==
  \/ requestLocation
  \/ \E lat \in Lats, lng \in Lngs, acc \in Accs : GeoSuccess(lat, lng, acc)
  \/ \E code \in ErrCodes : GeoError(code)
  \/ \E ok \in BOOLEAN : FetchResponds(ok)
  \/ FetchFails
  \/ AbortTimerFires
  \/ \E parsed \in BOOLEAN : BodyRead(parsed)
  \/ DelayElapsed

FlowSpec == Init /\ [][FlowNext]_vars

\* The runtime fires armed timers; the network, the host and the user are
\* under no obligation.
FlowFair == FlowSpec /\ WF_vars(DelayElapsed) /\ WF_vars(AbortTimerFires)

\* ------------------------------------------------------ insight service
\* JSON.parse on the texts explored: throws a SyntaxError on a text that is
\* not JSON, returns the object otherwise (absent fields are undefined).
JSONParses(text) == text \in {"{}", "{\"summary\":\"Welcome.\",\"funFact\":\"A fact.\"}"}

JSONParse(text) ==
  IF text = "{}" THEN AIInsight(Missing, Missing) ELSE AIInsight("Welcome.", "A fact.")

\* getGeoInsights(location) is called: up to `await ai.models.generateContent`.
getGeoInsights ==
  /\ insightPc \in {"idle", "returned"}
  /\ insightCalls < MaxInsights
  /\ insightCalls' = insightCalls + 1
  /\ insightPc' = "await"
  /\ insight' = NoInsight
  /\ insightFailure' = "none"
  /\ UNCHANGED <<flowVars, ingestVars>>

\* `catch (error) { console.error(...); return { summary: ..., funFact: ... } }`
InsightCatch ==
  /\ insight' = CannedInsight
  /\ insightPc' = "returned"

\* generateContent rejects (network error, quota, bad key).
generateContentRejects ==
  /\ insightPc = "await"
  /\ insightFailure' = "request"
  /\ InsightCatch
  /\ UNCHANGED <<flowVars, ingestVars, insightCalls>>

\* generateContent resolves: `const text = response.text; if (!text) throw
\* ...; return JSON.parse(text)`.
generateContentResolvesRethrows(text) ==
  /\ insightPc = "await"
  /\ IF text = Missing \/ text = ""
     THEN /\ insightFailure' = "empty"
          /\ InsightCatch
     ELSE IF ~JSONParses(text)
     THEN /\ insightFailure' = "parse"
          /\ insightPc' = "thrown"
          /\ UNCHANGED insight
     ELSE /\ insight' = JSONParse(text)
          /\ insightPc' = "returned"
          /\ UNCHANGED insightFailure
  /\ UNCHANGED <<flowVars, ingestVars, insightCalls>>

generateContentResolves(text) ==
  /\ insightPc = "await"
  /\ IF text = Missing \/ text = ""
     THEN /\ insightFailure' = "empty"
          /\ InsightCatch
     ELSE IF ~JSONParses(text)
     THEN /\ insightFailure' = "parse"
          /\ InsightCatch
     ELSE /\ insight' = JSONParse(text)
          /\ insightPc' = "returned"
          /\ UNCHANGED insightFailure
  /\ UNCHANGED <<flowVars, ingestVars, insightCalls>>

InsightNext ==
  \/ getGeoInsights
  \/ generateContentRejects
  \/ \E text \in Texts : generateContentResolves(text)

\* The insight service called at any time beside the client flow.
InsightSpec == Init /\ [][FlowNext \/ InsightNext]_vars

\* ------------------------------------------------- server: value helpers
\* JavaScript truthiness, as used by `!coordinates || !accuracy`.
Truthy(x) ==
  CASE x.t = "undef" -> FALSE
    [] x.t = "num" -> x.v # 0
    [] x.t = "str" -> x.v # ""
    [] x.t = "arr" -> TRUE

\* Mongoose cast to Number; the only string explored is not numeric.
CastsToNumber(x) == x.t = "num"

\* userId of the document: `userId || 'Vinu Varshith CP'` in the Next route,
\* the schema default in the Express app.
UserIdOf(srv, b) ==
  IF srv = "Next"
  THEN IF Truthy(b.userId) THEN b.userId.v ELSE DemoUser
  ELSE IF b.userId.t = "undef" THEN DemoUser ELSE b.userId.v

\* LocationSchema validation run by save(): userId is a required String (an
\* empty string fails `required`); accuracy is a required Number;
\* coordinates is a required [Number] (absent: the implicit [] default, which
\* passes `required`), each element cast to Number.
SchemaValid(b) ==
  /\ UserIdOf(server, b) # ""
  /\ CastsToNumber(b.accuracy)
  /\ b.coordinates.t \in {"undef", "arr"}
  /\ b.coordinates.t = "arr" =>
       \A i \in 1..Len(b.coordinates.v) : CastsToNumber(b.coordinates.v[i])

CastCoords(c) ==
  IF c.t = "arr" THEN [i \in 1..Len(c.v) |-> c.v[i].v] ELSE <<>>

\* LocationSchema.index({ location: '2dsphere' }): once the index exists the
\* store only indexes, and so only accepts, a GeoJSON Point with a longitude
\* in [-180, 180] and a latitude in [-90, 90].
GeoIndexAccepts(cs) ==
  /\ Len(cs) >= 2
  /\ cs[1] >= -180 /\ cs[1] <= 180
  /\ cs[2] >= -90 /\ cs[2] <= 90

\* `new Location({...})`: the document, with the _id assigned at construction.
\* The bodies explored carry no userAgent: the Next route falls back to the
\* request header, the Express app stores none. timestamp is `new Date()`,
\* as a logical time.
NewLocation(srv, b, id) ==
  [_id |-> id,
   userId |-> UserIdOf(srv, b),
   coordinates |-> CastCoords(b.coordinates),
   accuracy |-> b.accuracy.v,
   userAgent |-> IF srv = "Next" THEN UserAgent ELSE Missing,
   timestamp |-> id]

\* The ObjectId generated for the document constructed by call r.
NewObjectId(r) == r

\* The insert performed by save(): one more document, nothing else touched.
InsertUpsert(st, doc) ==
  IF \E i \in 1..Len(st) : st[i].coordinates = doc.coordinates /\ st[i].userId = doc.userId
  THEN [i \in 1..Len(st) |->
          IF st[i].coordinates = doc.coordinates /\ st[i].userId = doc.userId
          THEN [doc EXCEPT !._id = st[i]._id] ELSE st[i]]
  ELSE Append(st, doc)

Insert(st, doc) == Append(st, doc)

\* ------------------------------------------------------ server: requests
Req(p, b, st, id) == [pc |-> p, body |-> b, status |-> st, id |-> id]

\* Next route after `await dbConnect()`: read the body, check the two
\* fields, construct the document, up to `await newLocation.save()`.
ValidateRanged(b, r) ==
  IF \/ ~Truthy(b.coordinates) \/ ~Truthy(b.accuracy)
     \/ /\ b.coordinates.t = "arr"
        /\ Len(b.coordinates.v) = 2
        /\ \A i \in 1..2 : b.coordinates.v[i].t = "num"
        /\ ~GeoIndexAccepts(CastCoords(b.coordinates))
  THEN Req("done", b, 400, 0)
  ELSE Req("save", b, 0, NewObjectId(r))

Validate(b, r) ==
  IF ~Truthy(b.coordinates) \/ ~Truthy(b.accuracy)
  THEN Req("done", b, 400, 0)
  ELSE Req("save", b, 0, NewObjectId(r))

\* Calls are numbered in arrival order.
Arrives(r) == reqs[r].pc = "idle" /\ \A q \in 1..(r - 1) : reqs[q].pc # "idle"

\* save() is invoked by every call that has just reached `await
\* newLocation.save()`.
SaveCalled ==
  saves' = [r \in Calls |->
              IF reqs[r].pc # "save" /\ reqs'[r].pc = "save"
              THEN saves[r] + 1 ELSE saves[r]]

\* POST of the Next route arrives: dbConnect() returns the cached connection
\* at once, or starts / joins the pending connection attempt.
POSTNoPromiseGuard(r, b) ==
  /\ server = "Next"
  /\ Arrives(r)
  /\ IF cached.conn
     THEN /\ reqs' = [reqs EXCEPT ![r] = Validate(b, r)]
          /\ UNCHANGED <<cached, connects, inFlight>>
     ELSE /\ reqs' = [reqs EXCEPT ![r] = Req("connect", b, 0, 0)]
          /\ cached' = [cached EXCEPT !.promise = "pending"]
          /\ connects' = connects + 1
          /\ inFlight' = inFlight + 1
  /\ SaveCalled
  /\ UNCHANGED <<insightVars, flowVars, server, indexBuilt, dbUp, expressConn, store>>

POST(r, b) ==
  /\ server = "Next"
  /\ Arrives(r)
  /\ IF cached.conn
     THEN /\ reqs' = [reqs EXCEPT ![r] = Validate(b, r)]
          /\ UNCHANGED <<cached, connects, inFlight>>
     ELSE /\ reqs' = [reqs EXCEPT ![r] = Req("connect", b, 0, 0)]
          /\ IF cached.promise = "null"
             THEN /\ cached' = [cached EXCEPT !.promise = "pending"]
                  /\ connects' = connects + 1
                  /\ inFlight' = inFlight + 1
             ELSE UNCHANGED <<cached, connects, inFlight>>
  /\ SaveCalled
  /\ UNCHANGED <<insightVars, flowVars, server, indexBuilt, dbUp, expressConn, store>>

\* The connection attempt of dbConnect settles; every call awaiting
\* cached.promise resumes in the same microtask drain.
dbConnectSettles ==
  /\ server = "Next"
  /\ cached.promise = "pending"
  /\ IF dbUp
     THEN /\ cached' = [conn |-> TRUE, promise |-> "fulfilled"]
          /\ reqs' = [r \in Calls |->
                        IF reqs[r].pc = "connect"
                        THEN Validate(reqs[r].body, r) ELSE reqs[r]]
     ELSE /\ cached' = [conn |-> FALSE, promise |-> "null"]
          /\ reqs' = [r \in Calls |->
                        IF reqs[r].pc = "connect"
                        THEN Req("done", reqs[r].body, 500, 0) ELSE reqs[r]]
  /\ inFlight' = 0
  /\ SaveCalled
  /\ UNCHANGED <<insightVars, flowVars, server, indexBuilt, dbUp, expressConn, connects, store>>

\* save() settles: schema validation, then the insert; 201 on success, the
\* catch block's 500 on any rejection.
SaveOutcomeRetry(r, reachable) ==
  /\ reqs[r].pc = "save"
  /\ LET b == reqs[r].body
         doc == NewLocation(server, b, reqs[r].id)
     IN IF /\ SchemaValid(b)
           /\ reachable
           /\ indexBuilt => GeoIndexAccepts(CastCoords(b.coordinates))
        THEN /\ store' = Insert(store, doc)
             /\ reqs' = [reqs EXCEPT ![r] = Req("done", b, 201, reqs[r].id)]
             /\ UNCHANGED saves
        ELSE IF saves[r] < 2
        THEN /\ saves' = [saves EXCEPT ![r] = saves[r] + 1]
             /\ UNCHANGED <<store, reqs>>
        ELSE /\ UNCHANGED <<store, saves>>
             /\ reqs' = [reqs EXCEPT ![r] = Req("done", b, 500, reqs[r].id)]

SaveOutcomeSwallows(r, reachable) ==
  /\ reqs[r].pc = "save"
  /\ LET b == reqs[r].body
         doc == NewLocation(server, b, reqs[r].id)
     IN IF /\ SchemaValid(b)
           /\ reachable
           /\ indexBuilt => GeoIndexAccepts(CastCoords(b.coordinates))
        THEN /\ store' = Insert(store, doc)
             /\ reqs' = [reqs EXCEPT ![r] = Req("done", b, 201, reqs[r].id)]
        ELSE /\ UNCHANGED store
             /\ reqs' = [reqs EXCEPT ![r] = Req("done", b, 201, reqs[r].id)]
  /\ UNCHANGED saves

SaveOutcome(r, reachable) ==
  /\ reqs[r].pc = "save"
  /\ UNCHANGED saves
  /\ LET b == reqs[r].body
         doc == NewLocation(server, b, reqs[r].id)
     IN IF /\ SchemaValid(b)
           /\ reachable
           /\ indexBuilt => GeoIndexAccepts(CastCoords(b.coordinates))
        THEN /\ store' = Insert(store, doc)
             /\ reqs' = [reqs EXCEPT ![r] = Req("done", b, 201, reqs[r].id)]
        ELSE /\ UNCHANGED store
             /\ reqs' = [reqs EXCEPT ![r] = Req("done", b, 500, reqs[r].id)]

POSTSaveSettles(r) ==
  /\ server = "Next"
  /\ SaveOutcome(r, dbUp)
  /\ UNCHANGED <<insightVars, flowVars, server, indexBuilt, dbUp, cached, expressConn,
                 connects, inFlight>>

\* app.post('/api/location') of the Express app arrives: no check of the
\* body, the document is constructed and saved.
appPost(r, b) ==
  /\ server = "Express"
  /\ Arrives(r)
  /\ reqs' = [reqs EXCEPT ![r] = Req("save", b, 0, NewObjectId(r))]
  /\ SaveCalled
  /\ UNCHANGED <<insightVars, flowVars, server, indexBuilt, dbUp, cached, expressConn,
                 connects, inFlight, store>>

\* A valid document saved while the start-up connection is still being
\* established is buffered until that attempt settles.
appPostSaveSettles(r) ==
  /\ server = "Express"
  /\ expressConn # "connecting" \/ ~SchemaValid(reqs[r].body)
  /\ SaveOutcome(r, dbUp /\ expressConn = "connected")
  /\ UNCHANGED <<insightVars, flowVars, server, indexBuilt, dbUp, cached, expressConn,
                 connects, inFlight>>

\* `mongoose.connect(MONGODB_URI).then(...).catch(...)` at start-up settles;
\* a failure is logged and never retried.
expressConnectSettles ==
  /\ server = "Express"
  /\ expressConn = "connecting"
  /\ expressConn' = IF dbUp THEN "connected" ELSE "failed"
  /\ inFlight' = 0
  /\ UNCHANGED <<insightVars, flowVars, server, indexBuilt, dbUp, cached, reqs, saves,
                 connects, store>>

\* The storage becomes unreachable, or reachable again.
StorageToggles ==
  /\ dbUp' = ~dbUp
  /\ UNCHANGED <<insightVars, flowVars, server, indexBuilt, cached, expressConn, reqs, saves,
                 connects, inFlight, store>>

IngestNext ==
  \/ \E r \in Calls, b \in Bodies : POST(r, b)
  \/ dbConnectSettles
  \/ \E r \in Calls : POSTSaveSettles(r)
  \/ \E r \in Calls, b \in Bodies : appPost(r, b)
  \/ \E r \in Calls : appPostSaveSettles(r)
  \/ expressConnectSettles
  \/ StorageToggles

IngestSpec == Init /\ [][IngestNext]_vars

\* A pending promise of mongoose.connect() or save() settles.
Settles ==
  \/ dbConnectSettles
  \/ expressConnectSettles
  \/ \E r \in Calls : POSTSaveSettles(r) \/ appPostSaveSettles(r)

\* The driver resolves or rejects every promise it returns, so while an
\* await is pending one of them is eventually resumed.
IngestFair == IngestSpec /\ WF_vars(Settles)

\* The client, an endpoint and the insight service running side by side.
Next == FlowNext \/ IngestNext \/ InsightNext

Spec == Init /\ [][Next]_vars

\* ============================================================== properties
posts == Len(sent)                   \* number of fetch(API_URL, POST) calls made

\* C1: once the network write has settled (2xx, non-2xx, network error,
\* abort, or a 2xx whose body cannot be read), the flow eventually reaches
\* LOCATION_GRANTED.
C1_GrantedAfterOutcome == (outcome # "none") ~> (state = "LOCATION_GRANTED")

C1_Witness ==
  /\ outcome \in {"non2xx", "neterr", "abort", "badbody"}
  /\ state = "LOCATION_GRANTED"

\* C2: the flow never stays in SYNCING forever: every SYNCING state is
\* eventually left, even if the server never answers.
C2_LeavesSyncing == (state = "SYNCING") ~> (state # "SYNCING")

\* C3: from SYNCING on, the flow stays in SYNCING or LOCATION_GRANTED (never
\* LOCATION_DENIED) and the error message is null, whatever the outcome.
C3_FailureNeverVisible ==
  [][/\ state' \in {"SYNCING", "LOCATION_GRANTED"} => error' = Null
     /\ state \in {"SYNCING", "LOCATION_GRANTED"}
          => state' \in {"SYNCING", "LOCATION_GRANTED"}]_vars

C3_Witness ==
  /\ pc = "delay"
  /\ outcome # "none"
  /\ state = "SYNCING"
  /\ error = Null

\* C4: after the host reports a capture failure, the flow is in
\* LOCATION_DENIED and the error message is non-empty, is the message of the
\* reported kind and of no other kind, and is not the generic fallback.
C4_CaptureFailureKinds ==
  geoErr # 0 =>
    /\ geoErr \in ErrCodes
    /\ state = "LOCATION_DENIED"
    /\ error \notin {Null, ""}
    /\ error \notin {GenericMessage(variant), UnsupportedMessage(variant)}
    /\ \A c \in ErrCodes \ {geoErr} : error # ErrorMessage(variant, c)

C4_Witness == geoErr = 3 /\ state = "LOCATION_DENIED"

\* C5: without a geolocation capability no position request and no network
\* write is ever issued, and a click ends in LOCATION_DENIED with a non-empty
\* error message.
C5_Unsupported ==
  ~hasGeo =>
    /\ geoRequests = 0
    /\ ~geoPending
    /\ posts = 0
    /\ clicks > 0 => /\ state = "LOCATION_DENIED"
                     /\ error \notin {Null, ""}
                     /\ error = UnsupportedMessage(variant)

C5_Witness == ~hasGeo /\ clicks > 0 /\ state = "LOCATION_DENIED"

\* C6: every submitted payload carries coordinates [longitude, latitude] of
\* the capture it was built from, and that capture's accuracy.
C6_LngLatOrder ==
  /\ Len(sent) = Len(captured)
  /\ \A i \in 1..Len(sent) :
       /\ sent[i].coordinates = <<captured[i].longitude, captured[i].latitude>>
       /\ sent[i].accuracy = captured[i].accuracy

C6_Witness ==
  /\ Len(sent) = 1
  /\ captured[1].latitude # captured[1].longitude
  /\ sent[1].coordinates[1] = captured[1].longitude

\* Call r returns its response in this step.
Completes(r) == reqs[r].pc # "done" /\ reqs'[r].pc = "done"

\* The payload breaks the documented shape: coordinates is not an array of
\* exactly two numbers, or accuracy is not a number.
ShapeInvalid(b) ==
  \/ b.coordinates.t # "arr"
  \/ b.coordinates.t = "arr" /\ Len(b.coordinates.v) # 2
  \/ b.coordinates.t = "arr" /\ \E i \in 1..Len(b.coordinates.v) : b.coordinates.v[i].t # "num"
  \/ b.accuracy.t # "num"

\* The payload has the documented shape: a pair of numbers and an accuracy
\* that is a number >= 0.
ShapeValid(b) == ~ShapeInvalid(b) /\ b.accuracy.v >= 0

\* The store holds a document with this _id, coordinates and accuracy.
Persisted(st, id, b) ==
  \E i \in 1..Len(st) :
    /\ st[i]._id = id
    /\ st[i].coordinates = CastCoords(b.coordinates)
    /\ st[i].accuracy = b.accuracy.v

\* C7: every call whose payload breaks the documented shape is answered
\* with status 400.
C7_InvalidGets400 ==
  \A r \in Calls :
    reqs[r].pc = "done" /\ ShapeInvalid(reqs[r].body) => reqs[r].status = 400

\* C8: a call with a payload of the documented shape (accuracy 0 included)
\* that returns while the storage is available and connected is answered
\* with 201 and the id of a persisted record carrying its coordinates and
\* accuracy.
C8_ValidGets201 ==
  [][\A r \in Calls :
       /\ Completes(r)
       /\ ShapeValid(reqs'[r].body)
       /\ dbUp
       /\ server = "Express" => expressConn = "connected"
       => /\ reqs'[r].status = 201
          /\ reqs'[r].id # 0
          /\ Persisted(store', reqs'[r].id, reqs'[r].body)]_vars

\* C9: a call without accuracy is answered with 400, and no call answered
\* with 400 changes the store.
C9_MissingAccuracy400 ==
  [][\A r \in Calls :
       Completes(r) =>
         /\ reqs'[r].body.accuracy = Undef
              => reqs'[r].status = 400 /\ store' = store
         /\ reqs'[r].status = 400 => store' = store]_vars

\* C10: the store only grows, by at most one document per step; a call
\* answered with 201 appends exactly one document, whose _id is the one
\* returned and is carried by no earlier document; the store holds one record
\* per successful call, also for calls with equal payloads.
C10_StoreOnlyGrows ==
  [][/\ Len(store') >= Len(store)
     /\ Len(store') <= Len(store) + 1
     /\ SubSeq(store', 1, Len(store)) = store
     /\ \A r \in Calls :
          Completes(r) /\ reqs'[r].status = 201 =>
            /\ Len(store') = Len(store) + 1
            /\ store'[Len(store')]._id = reqs'[r].id
            /\ \A i \in 1..Len(store) : store[i]._id # reqs'[r].id
     /\ Cardinality({r \in Calls : reqs'[r].status = 201}) = Len(store')]_vars

C10_Witness ==
  /\ reqs[1].status = 201
  /\ reqs[2].status = 201
  /\ reqs[1].body = reqs[2].body
  /\ Len(store) = 2
  /\ store[1]._id # store[2]._id
  /\ store[1].coordinates = store[2].coordinates

\* The storage can be written through the server's connection.
StorageReachable ==
  IF server = "Next" THEN dbUp ELSE dbUp /\ expressConn = "connected"

\* Call r returns in this step because the storage failed it: its connection
\* attempt finds the storage unreachable, or the save of its schema-valid
\* document finds the storage unreachable or is rejected by the store.
StorageFails(r) ==
  /\ Completes(r)
  /\ \/ reqs[r].pc = "connect" /\ ~dbUp
     \/ /\ reqs[r].pc = "save"
        /\ SchemaValid(reqs[r].body)
        /\ ~(/\ StorageReachable
             /\ indexBuilt => GeoIndexAccepts(CastCoords(reqs[r].body.coordinates)))

\* C11 as stated: a call failed by the storage is answered with 500, has made
\* exactly one write attempt, and leaves the store unchanged.
C11_ExactlyOneWrite ==
  [][\A r \in Calls :
       StorageFails(r) =>
         /\ reqs'[r].status = 500
         /\ saves'[r] = 1
         /\ store' = store]_vars

\* C11 amended: a call failed by the storage is answered with 500, leaves the
\* store unchanged and starts no further connection attempt; it has made one
\* write attempt if it failed in save(), and none if it failed in dbConnect().
C11_StorageFailure500 ==
  [][\A r \in Calls :
       StorageFails(r) =>
         /\ reqs'[r].status = 500
         /\ saves'[r] = IF reqs[r].pc = "save" THEN 1 ELSE 0
         /\ connects' = connects
         /\ store' = store]_vars

C11_Witness ==
  \E r \in Calls :
    /\ reqs[r].pc = "done"
    /\ reqs[r].status = 500
    /\ reqs[r].body = Body(GoodCoords, Num(5), Str("u1"))
    /\ saves[r] = 1
    /\ ~dbUp
    /\ store = <<>>

\* The server holds an established connection.
Connected ==
  IF server = "Next" THEN cached.conn ELSE expressConn = "connected"

\* Call r arrives in this step.
Arriving(r) == reqs[r].pc = "idle" /\ reqs'[r].pc # "idle"

\* C12: a call arriving after a failed connection attempt, with no connection
\* and no attempt pending, starts a fresh attempt; and no save of a valid
\* document that settles while the storage is reachable and accepts it fails
\* for want of a connection.
C12_FailedAttemptRetried ==
  [][\A r \in Calls :
       /\ Arriving(r) /\ connects > 0 /\ ~Connected /\ inFlight = 0
            => connects' = connects + 1
       /\ /\ Completes(r)
          /\ reqs[r].pc = "save"
          /\ SchemaValid(reqs[r].body)
          /\ dbUp
          /\ indexBuilt => GeoIndexAccepts(CastCoords(reqs[r].body.coordinates))
          => reqs'[r].status = 201]_vars

\* Geolocation requests and network writes of the flow that are outstanding.
FlowInFlight ==
  (IF geoPending THEN 1 ELSE 0) + (IF pc \in {"fetch", "body"} THEN 1 ELSE 0)

\* C13: at most one geolocation request or network write is in flight; a
\* geolocation request is only issued from INITIAL or LOCATION_DENIED with
\* nothing in flight, and nothing is in flight in those two states.
C13_NoConcurrentCapture ==
  [][/\ FlowInFlight' <= 1
     /\ geoRequests' > geoRequests
          => FlowInFlight = 0 /\ state \in {"INITIAL", "LOCATION_DENIED"}
     /\ state' \in {"INITIAL", "LOCATION_DENIED"} => FlowInFlight' = 0]_vars

C13_Witness ==
  /\ geoRequests = 2
  /\ pc = "fetch"
  /\ ~geoPending
  /\ FlowInFlight = 1

\* The user clicks the retry button of the LOCATION_DENIED card in this step.
Retry == state = "LOCATION_DENIED" /\ clicks' = clicks + 1

\* C14 as stated: every retry from LOCATION_DENIED enters PROCESSING with the
\* error message cleared.
C14_RetryRestarts ==
  [][Retry => state' = "PROCESSING" /\ error' = Null]_vars

\* C14 amended: on a host with a geolocation capability a retry enters
\* PROCESSING with the error cleared and a new position request pending;
\* without the capability it ends in LOCATION_DENIED again with the
\* unsupported message. A pending request, first or retried, can succeed
\* with any position and fail with any code.
C14_RetryWithCapability ==
  /\ [][Retry =>
          IF hasGeo
          THEN /\ state' = "PROCESSING"
               /\ error' = Null
               /\ geoPending'
               /\ geoRequests' = geoRequests + 1
          ELSE /\ state' = "LOCATION_DENIED"
               /\ error' = UnsupportedMessage(variant)
               /\ ~geoPending'
               /\ geoRequests' = geoRequests]_vars
  /\ [](geoPending =>
          /\ state = "PROCESSING"
          /\ \A lat \in Lats, lng \in Lngs, acc \in Accs :
               ENABLED GeoSuccess(lat, lng, acc)
          /\ \A code \in ErrCodes : ENABLED GeoError(code))

C14_Witness ==
  /\ clicks = 2
  /\ state = "PROCESSING"
  /\ error = Null
  /\ geoPending

\* The boundary payload of the specification: a finite pair outside the
\* longitude / latitude ranges, with a numeric accuracy.
OutOfRangeBody == Body(Arr(<<Num(200), Num(-100)>>), Num(5), Str("u1"))

ClaimedTransitions ==
  {<<"INITIAL", "PROCESSING">>, <<"PROCESSING", "SYNCING">>,
   <<"PROCESSING", "LOCATION_DENIED">>, <<"SYNCING", "LOCATION_GRANTED">>,
   <<"LOCATION_DENIED", "PROCESSING">>}

\* C16 as stated: every change of state is one of the five transitions, and
\* CONSENT_PENDING is never reached.
C16_OnlyFiveTransitions ==
  /\ [][state' # state => <<state, state'>> \in ClaimedTransitions]_vars
  /\ [](state # "CONSENT_PENDING")

\* C16 amended: every change of state is one of the five transitions or, on
\* a host without geolocation only, INITIAL -> LOCATION_DENIED; with
\* geolocation present only the five occur. LOCATION_GRANTED is never left
\* and is entered only from SYNCING; CONSENT_PENDING is never reached.
C16_Transitions ==
  /\ [][/\ state' # state =>
             \/ <<state, state'>> \in ClaimedTransitions
             \/ ~hasGeo /\ <<state, state'>> = <<"INITIAL", "LOCATION_DENIED">>
        /\ ~hasGeo => state' \in {"INITIAL", "LOCATION_DENIED"}
        /\ state = "LOCATION_GRANTED" => state' = "LOCATION_GRANTED"
        /\ state' = "LOCATION_GRANTED"
             => state \in {"SYNCING", "LOCATION_GRANTED"}]_vars
  /\ [](state \in {"INITIAL", "PROCESSING", "SYNCING", "LOCATION_GRANTED",
                   "LOCATION_DENIED"})

C16_Witness ==
  /\ state = "LOCATION_GRANTED"
  /\ clicks = 2
  /\ geoRequests = 2
  /\ pc = "done"

\* C17: at most one connection attempt is in flight; an attempt is started
\* only when none is in flight and no connection is established; a call
\* arriving during an attempt waits for that attempt; when the attempt
\* settles no call is left waiting; once a connection is established it is
\* kept and no further attempt is ever started.
C17_SingleConnection ==
  /\ [](inFlight <= 1)
  /\ [][/\ connects' > connects => inFlight = 0 /\ ~Connected
        /\ \A r \in Calls :
             Arriving(r) /\ server = "Next" /\ inFlight = 1
               => reqs'[r].pc = "connect" /\ connects' = connects
        /\ inFlight = 1 /\ inFlight' = 0
             => \A r \in Calls : reqs'[r].pc # "connect"
        /\ Connected
             => Connected' /\ cached' = cached /\ connects' = connects]_vars

C17_Witness ==
  /\ server = "Next"
  /\ reqs[1].pc = "connect"
  /\ reqs[2].pc = "connect"
  /\ connects = 1
  /\ inFlight = 1

\* C18: a call whose payload fails validation and that returns while the
\* storage is unreachable is answered with 400.
C18_InvalidGets400WhenDown ==
  [][\A r \in Calls :
       Completes(r) /\ ShapeInvalid(reqs'[r].body) /\ ~dbUp
         => reqs'[r].status = 400]_vars

\* The response of call r carries the id of a document in the store.
Wrote(r) == \E i \in 1..Len(store) : store[i]._id = NewObjectId(r)

\* C19: every call that has arrived eventually returns (no call stays pending
\* for ever, and a returned call stays returned); a returned call has one
\* response, with status 201, 400 or 500, that never changes afterwards;
\* its status is 201 exactly when the store holds the document constructed by
\* that call; a call that has not returned has no status and no document.
C19_OneResponse ==
  /\ []<>(\A r \in Calls : reqs[r].pc \in {"idle", "done"})
  /\ [](\A r \in Calls :
          IF reqs[r].pc = "done"
          THEN /\ reqs[r].status \in {201, 400, 500}
               /\ reqs[r].status = 201 <=> Wrote(r)
          ELSE reqs[r].status = 0 /\ ~Wrote(r))
  /\ [][\A r \in Calls : reqs[r].pc = "done" => reqs'[r] = reqs[r]]_vars

C19_Witness ==
  /\ \A r \in Calls : reqs[r].pc = "done"
  /\ reqs[1].status = 500 /\ ~Wrote(1)
  /\ reqs[2].status = 201 /\ Wrote(2)

\* C20: in every state of the flow the error message is set, and then not
\* empty, exactly when the state is LOCATION_DENIED; it is null in INITIAL,
\* PROCESSING, SYNCING and LOCATION_GRANTED.
C20_ErrorIffDenied ==
  /\ state = "LOCATION_DENIED" <=> error # Null
  /\ error # ""
  /\ state \in {"INITIAL", "PROCESSING", "SYNCING", "LOCATION_GRANTED"} => error = Null

C20_Witness ==
  /\ state = "LOCATION_GRANTED"
  /\ error = Null
  /\ clicks = 2

\* C21: the client has issued exactly one POST per successful capture, that
\* capture's payload, and none otherwise: a POST is issued only in the step
\* that delivers a position, never in a step that ends in LOCATION_DENIED
\* (capture failure, unsupported host), and never in a step in which the
\* network write settles or the flow moves on after it.
C21_OnePostPerCapture ==
  /\ [](/\ Len(sent) = Len(captured)
        /\ \A i \in 1..Len(sent) : sent[i] = BuildPayload(captured[i])
        /\ Len(sent) <= geoRequests)
  /\ [][/\ sent' # sent
             => /\ geoPending /\ ~geoPending'
                /\ Len(captured') = Len(captured) + 1
                /\ Len(sent') = Len(sent) + 1
        /\ state' = "LOCATION_DENIED" => sent' = sent
        /\ pc \in {"fetch", "body", "delay", "done"} /\ ~geoPending => sent' = sent]_vars

C21_Witness ==
  /\ clicks = 2
  /\ Len(sent) = 1
  /\ outcome \in {"neterr", "abort", "non2xx"}
  /\ pc = "done"

\* C22: every persisted document carries the userId of the payload of the
\* call that wrote it when the payload has one, and 'Vinu Varshith CP' when
\* the payload has none, whichever endpoint is deployed.
C22_SubjectFromPayload ==
  \A i \in 1..Len(store) :
    LET b == reqs[store[i]._id].body
    IN store[i].userId = IF b.userId = Undef THEN DemoUser ELSE b.userId.v

\* C23: no getGeoInsights call ends in a throw; a call that the insight
\* service failed (request error, empty response text, unparsable response
\* text) has returned the static canned summary and fun fact; and a step of
\* getGeoInsights leaves every variable of the capture-and-submit flow as it
\* was.
C23_InsightNeverFails ==
  /\ [](insightPc # "thrown")
  /\ [](insightPc = "returned" /\ insightFailure # "none" => insight = CannedInsight)
  /\ [](insightFailure # "none" => insightPc = "returned")
  /\ [][insightVars' # insightVars => flowVars' = flowVars]_vars

C23_Witness ==
  /\ insightPc = "returned"
  /\ insightFailure = "parse"
  /\ insight = CannedInsight
  /\ state = "SYNCING"

====
